---- MODULE Spec2Model ----
(***************************************************************************)
(* The pipelined virtual processor of aethel_os_nexus.py: ALU, ModularCPU  *)
(* (resolve, tick) and the port-mapped display, as a state machine whose   *)
(* one operation is tick().                                                *)
(***************************************************************************)
EXTENDS Integers, Sequences, FiniteSets, TLC

VARIABLES rom, regs, pc, ports, screen, pipeline, core_id, err, ram,
          ticks, idle, executed, seq, jumps, aluIn, aluOut, memLast, resLast

vars == <<rom, regs, pc, ports, screen, pipeline, core_id, err, ram,
          ticks, idle, executed, seq, jumps, aluIn, aluOut, memLast, resLast>>

\* ------------------------------------------------------------------ bounds
\* longest program drawn from the instruction pool
MaxLen == 3
\* the tick counter saturates here
MaxTicks == 8
\* longest program of the runs ticked forever
MaxLiveLen == 4
\* largest Memory constructed on its own
MaxMemSize == 3
\* Memory addresses are drawn from -MaxAddr..MaxAddr
MaxAddr == 7

\* ------------------------------------------------------- program constants
NumRegs == 8
NumPorts == 256
RamSize == 256
ScreenDim == 32
ByteMask == 255

\* ----------------------------------------------------------------- values
\* Python's None / an empty pipeline slot / an empty program entry
None == <<>>

\* a register reference "Rk" and an integer literal, kept distinguishable
Reg(k) == <<"R", k>>
Lit(n) == <<"L", n>>
\* an operand that is None
Absent == <<"N", 0>>

\* isinstance(op, str) and op.startswith("R")
IsReg(op) == op[1] = "R"

Min(a, b) == IF a < b THEN a ELSE b

\* ------------------------------------------- Python integer bit operations
\* Python ints are unbounded two's complement: -1 is all ones.
RECURSIVE BitAnd(_, _)
BitAnd(a, b) ==
    IF a = 0 \/ b = 0 THEN 0
    ELSE IF a = -1 THEN b
    ELSE IF b = -1 THEN a
    ELSE (a % 2) * (b % 2) + 2 * BitAnd(a \div 2, b \div 2)

RECURSIVE BitOr(_, _)
BitOr(a, b) ==
    IF a = 0 THEN b
    ELSE IF b = 0 THEN a
    ELSE IF a = -1 \/ b = -1 THEN -1
    ELSE (IF a % 2 = 1 \/ b % 2 = 1 THEN 1 ELSE 0) + 2 * BitOr(a \div 2, b \div 2)

RECURSIVE BitXor(_, _)
BitXor(a, b) ==
    IF a = 0 THEN b
    ELSE IF b = 0 THEN a
    ELSE IF a = -1 THEN -b - 1
    ELSE IF b = -1 THEN -a - 1
    ELSE (IF a % 2 = b % 2 THEN 0 ELSE 1) + 2 * BitXor(a \div 2, b \div 2)

\* (v1 << v2) & 0xFF for v2 >= 0. The left shift is computed one doubling at
\* a time on the low byte, which is all the mask keeps; once the low byte is
\* zero further doublings leave it zero.
RECURSIVE ShiftLeftMasked(_, _)
ShiftLeftMasked(v1, v2) ==
    IF v2 = 0 \/ BitAnd(v1, ByteMask) = 0 THEN BitAnd(v1, ByteMask)
    ELSE ShiftLeftMasked(BitAnd(2 * v1, ByteMask), v2 - 1)

\* ----------------------------------------------------------------- Memory
\* Memory.__init__: self.data = [0] * size
Memory_init(size) == [i \in 1..size |-> 0]

\* a read that folds a negative address onto its absolute value
Memory_read_Abs(data, addr) ==
    data[((IF addr < 0 THEN -addr ELSE addr) % Len(data)) + 1]

\* Memory.read; Python's % with a positive modulus is never negative
Memory_read(data, addr) == data[(addr % Len(data)) + 1]

\* a write that stores the value as given
Memory_write_Unmasked(data, addr, val) ==
    [data EXCEPT ![(addr % Len(data)) + 1] = val]

\* Memory.write
Memory_write(data, addr, val) ==
    [data EXCEPT ![(addr % Len(data)) + 1] = BitAnd(val, ByteMask)]

\* -------------------------------------------------------------------- ALU
\* v1 << v2 raises ValueError("negative shift count") when v2 < 0
ALU_raises(op, v1, v2) == op = "BSL" /\ v2 < 0

\* an ALU whose multiply is not masked
ALU_execute_WideMul(op, v1, v2) ==
    IF op = "ADD" THEN BitAnd(v1 + v2, ByteMask)
    ELSE IF op = "SUB" THEN BitAnd(v1 - v2, ByteMask)
    ELSE IF op = "MUL" THEN v1 * v2
    ELSE IF op = "AND" THEN BitAnd(v1, v2)
    ELSE IF op = "OR" THEN BitOr(v1, v2)
    ELSE IF op = "XOR" THEN BitXor(v1, v2)
    ELSE IF op = "BSL" THEN ShiftLeftMasked(v1, v2)
    ELSE 0

ALU_execute(op, v1, v2) ==
    IF op = "ADD" THEN BitAnd(v1 + v2, ByteMask)
    ELSE IF op = "SUB" THEN BitAnd(v1 - v2, ByteMask)
    ELSE IF op = "MUL" THEN BitAnd(v1 * v2, ByteMask)
    ELSE IF op = "AND" THEN BitAnd(v1, v2)
    ELSE IF op = "OR" THEN BitOr(v1, v2)
    ELSE IF op = "XOR" THEN BitXor(v1, v2)
    ELSE IF op = "BSL" THEN ShiftLeftMasked(v1, v2)
    ELSE 0

\* -------------------------------------------------------------------- CPU
\* the mutable fields of a ModularCPU, as one value
State ==
    [regs |-> regs, pc |-> pc, ports |-> ports, screen |-> screen,
     pipeline |-> pipeline, err |-> err]

\* ModularCPU.__init__
InitState ==
    [regs |-> [k \in 0..(NumRegs - 1) |-> 0],
     pc |-> 0,
     ports |-> [p \in 0..(NumPorts - 1) |-> 0],
     screen |-> {},
     pipeline |-> [F |-> None, D |-> None, E |-> None, W |-> None],
     err |-> "none"]

\* a resolve that reads the register file and ignores the pending payload
resolve_NoForward(s, op) ==
    IF IsReg(op) THEN s.regs[op[2]]
    ELSE IF op = Absent THEN 0 ELSE op[2]

\* ModularCPU.resolve
resolve(s, op) ==
    IF IsReg(op)
    THEN IF s.pipeline.W # None /\ s.pipeline.W[2] = op
         THEN s.pipeline.W[1]
         ELSE s.regs[op[2]]
    ELSE IF op = Absent THEN 0 ELSE op[2]

\* a writeback that commits the payload and leaves it in the slot
WritebackStep_KeepsPayload(s) ==
    LET w == s.pipeline.W
    IN IF w # None /\ IsReg(w[2])
       THEN [s EXCEPT !.regs[w[2][2]] = w[1]]
       ELSE s

\* a writeback that clears the payload without committing it
WritebackStep_NoCommit(s) == [s EXCEPT !.pipeline.W = None]

\* 1. WRITEBACK, and the clearing of the payload slot
WritebackStep(s) ==
    LET w == s.pipeline.W
        committed ==
            IF w # None /\ IsReg(w[2])
            THEN [s.regs EXCEPT ![w[2][2]] = w[1]]
            ELSE s.regs
    IN [s EXCEPT !.regs = committed, !.pipeline.W = None]

\* an OUT whose bulk clear on port 13 also resets the port bank
ExecOut_ResetsPorts(s, dest, v1) ==
    LET port == resolve(s, dest)
        stored == [s.ports EXCEPT ![port % NumPorts] = v1]
        w == IF port = 0 THEN <<core_id, dest>> ELSE None
        lit == IF port = 12
               THEN s.screen \cup
                    {<<stored[11] % ScreenDim, stored[10] % ScreenDim>>}
               ELSE s.screen
    IN IF port = 13
       THEN [s EXCEPT !.ports = InitState.ports, !.pipeline.W = w,
                      !.screen = {}]
       ELSE [s EXCEPT !.ports = stored, !.pipeline.W = w, !.screen = lit]

\* an OUT that stores the value but drives no hardwired port
ExecOut_StoreOnly(s, dest, v1) ==
    [s EXCEPT !.ports[resolve(s, dest) % NumPorts] = v1]

\* an OUT whose pixel write swaps row and column
ExecOut_Transposed(s, dest, v1) ==
    LET port == resolve(s, dest)
        stored == [s.ports EXCEPT ![port % NumPorts] = v1]
        w == IF port = 0 THEN <<core_id, dest>> ELSE None
        lit == IF port = 12
               THEN s.screen \cup
                    {<<stored[10] % ScreenDim, stored[11] % ScreenDim>>}
               ELSE s.screen
        scr == IF port = 13 THEN {} ELSE lit
    IN [s EXCEPT !.ports = stored, !.pipeline.W = w, !.screen = scr]

\* the OUT branch of the execute step: the store, then the hardwired ports
ExecOut(s, dest, v1) ==
    LET port == resolve(s, dest)
        stored == [s.ports EXCEPT ![port % NumPorts] = v1]
        w == IF port = 0 THEN <<core_id, dest>> ELSE None
        lit == IF port = 12
               THEN s.screen \cup
                    {<<stored[11] % ScreenDim, stored[10] % ScreenDim>>}
               ELSE s.screen
        scr == IF port = 13 THEN {} ELSE lit
    IN [s EXCEPT !.ports = stored, !.pipeline.W = w, !.screen = scr]

\* a flush that forgets the Decode slot
Flush_KeepsDecode(s, v2) == [s EXCEPT !.pc = v2, !.pipeline.F = None]

\* a flush that forgets the Fetch slot
Flush_KeepsFetch(s, v2) == [s EXCEPT !.pc = v2, !.pipeline.D = None]

\* self.pc = v2; self.pipeline["F"] = self.pipeline["D"] = None
Flush(s, v2) ==
    [s EXCEPT !.pc = v2, !.pipeline.F = None, !.pipeline.D = None]

\* a BEQ that branches without comparing
ExecBeq_Always(s, dest, v1, v2) == Flush(s, v2)

\* the BEQ branch of the execute step
ExecBeq(s, dest, v1, v2) ==
    IF resolve(s, dest) = v1 THEN Flush(s, v2) ELSE s

\* an ALU branch that also writes the result straight into the register
ExecAlu_WritesThrough(s, op, dest, v1, v2) ==
    IF ALU_raises(op, v1, v2)
    THEN [s EXCEPT !.err = "ValueError"]
    ELSE IF IsReg(dest)
    THEN [s EXCEPT !.pipeline.W = <<ALU_execute(op, v1, v2), dest>>,
                   !.regs[dest[2]] = ALU_execute(op, v1, v2)]
    ELSE [s EXCEPT !.pipeline.W = <<ALU_execute(op, v1, v2), dest>>]

\* the ALU branch of the execute step; a raising ALU leaves the slot unset
ExecAlu(s, op, dest, v1, v2) ==
    IF ALU_raises(op, v1, v2)
    THEN [s EXCEPT !.err = "ValueError"]
    ELSE [s EXCEPT !.pipeline.W = <<ALU_execute(op, v1, v2), dest>>]

\* 2. EXECUTE
ExecuteStep(s) ==
    IF s.pipeline.E = None THEN s
    ELSE
    LET op == s.pipeline.E[1]
        dest == s.pipeline.E[2]
        v1 == resolve(s, s.pipeline.E[3])
        v2 == resolve(s, s.pipeline.E[4])
    IN  IF op = "OUT" THEN ExecOut(s, dest, v1)
        ELSE IF op = "JMP" THEN Flush(s, v2)
        ELSE IF op = "BEQ" THEN ExecBeq(s, dest, v1, v2)
        ELSE ExecAlu(s, op, dest, v1, v2)

\* a pipeline move with its two assignments in the wrong order
ShiftStep_Swapped(s) ==
    [s EXCEPT !.pipeline.D = s.pipeline.F, !.pipeline.E = s.pipeline.F]

\* 3. PIPELINE MOVE
ShiftStep(s) ==
    [s EXCEPT !.pipeline.E = s.pipeline.D, !.pipeline.D = s.pipeline.F]

\* rom[pc] with Python's list indexing: a negative index counts from the end
PyIndex(i) == IF i < 0 THEN Len(rom) + i + 1 ELSE i + 1

\* a fetch that leaves the slot alone when there is nothing to fetch
FetchStep_KeepsSlot(s) ==
    IF ~(s.pc < Len(rom)) THEN s
    ELSE IF s.pc < -Len(rom) THEN [s EXCEPT !.err = "IndexError"]
    ELSE IF rom[PyIndex(s.pc)] # None
         THEN [s EXCEPT !.pipeline.F = rom[PyIndex(s.pc)], !.pc = s.pc + 1]
         ELSE s

\* 4. FETCH
FetchStep(s) ==
    IF ~(s.pc < Len(rom)) THEN [s EXCEPT !.pipeline.F = None]
    ELSE IF s.pc < -Len(rom) THEN [s EXCEPT !.err = "IndexError"]
    ELSE IF rom[PyIndex(s.pc)] # None
         THEN [s EXCEPT !.pipeline.F = rom[PyIndex(s.pc)], !.pc = s.pc + 1]
         ELSE [s EXCEPT !.pipeline.F = None]

\* ModularCPU.tick: an exception leaves the fields as they were when raised
tick(s) ==
    LET s2 == ExecuteStep(WritebackStep([s EXCEPT !.err = "none"]))
    IN IF s2.err # "none" THEN s2 ELSE FetchStep(ShiftStep(s2))

\* ------------------------------------------------------------ the programs
ADD_R0 == <<"ADD", Reg(0), Lit(5), Lit(0)>>
ADD_R1 == <<"ADD", Reg(1), Reg(0), Lit(1)>>
JMP_10 == <<"JMP", Lit(0), Lit(0), Lit(10)>>
JMP_0 == <<"JMP", Lit(0), Lit(0), Lit(0)>>
JMP_NEG == <<"JMP", Lit(0), Lit(0), Lit(-2)>>
BEQ_R0 == <<"BEQ", Reg(0), Lit(5), Lit(0)>>
OUT_X == <<"OUT", Lit(10), Lit(5), Lit(0)>>
OUT_Y == <<"OUT", Lit(11), Lit(7), Lit(0)>>
OUT_SET == <<"OUT", Lit(12), Lit(1), Lit(0)>>
OUT_CLR == <<"OUT", Lit(13), Lit(0), Lit(0)>>
OUT_REG == <<"OUT", Reg(1), Reg(0), Lit(0)>>
OUT_ID == <<"OUT", Lit(0), Lit(3), Lit(0)>>
OUT_WIDE == <<"OUT", Lit(268), Lit(300), Lit(0)>>
XOR_R3 == <<"XOR", Reg(3), Lit(-1), Lit(0)>>
BSL_R4 == <<"BSL", Reg(4), Lit(1), Reg(3)>>
HLT_R5 == <<"HLT", Reg(5), Lit(9), Lit(9)>>
OR_R3 == <<"OR", Reg(3), Reg(5), Lit(0)>>
XOR_R5 == <<"XOR", Reg(5), Reg(5), Lit(-1)>>

Pool ==
    {ADD_R0, ADD_R1, JMP_10, JMP_0, JMP_NEG, BEQ_R0, OUT_X, OUT_Y, OUT_SET,
     OUT_CLR, OUT_REG, OUT_ID, OUT_WIDE, XOR_R3, BSL_R4, HLT_R5, None}

Programs == UNION {[1..n -> Pool] : n \in 0..MaxLen}

\* ------------------------------------------- the one-at-a-time reference
\* A non-pipelined interpreter of the same instruction set: it executes the
\* instruction at its own PC to completion, results committed at once.
Operand(rf, op) == IF op[1] = "R" THEN rf[op[2]] ELSE op[2]

SeqInit ==
    [regs |-> InitState.regs, pc |-> 0, ports |-> InitState.ports,
     screen |-> {}]

SeqHasNext(q) ==
    0 <= q.pc /\ q.pc < Len(rom) /\ rom[q.pc + 1] # None

SeqStep(q) ==
    IF ~SeqHasNext(q) THEN q
    ELSE
    LET ins == rom[q.pc + 1]
        op == ins[1]
        dest == ins[2]
        v1 == Operand(q.regs, ins[3])
        v2 == Operand(q.regs, ins[4])
        set(rf, d, v) == IF d[1] = "R" THEN [rf EXCEPT ![d[2]] = v] ELSE rf
    IN  IF op = "OUT" THEN
            LET port == Operand(q.regs, dest)
                stored == [q.ports EXCEPT ![port % NumPorts] = v1]
            IN [regs |-> IF port = 0 THEN set(q.regs, dest, core_id) ELSE q.regs,
                pc |-> q.pc + 1,
                ports |-> stored,
                screen |->
                    IF port = 13 THEN {}
                    ELSE IF port = 12
                    THEN q.screen \cup
                         {<<stored[11] % ScreenDim, stored[10] % ScreenDim>>}
                    ELSE q.screen]
        ELSE IF op = "JMP" THEN [q EXCEPT !.pc = v2]
        ELSE IF op = "BEQ" THEN
            [q EXCEPT !.pc = IF Operand(q.regs, dest) = v1 THEN v2 ELSE q.pc + 1]
        ELSE IF ALU_raises(op, v1, v2) THEN q
        ELSE [q EXCEPT !.regs = set(q.regs, dest, ALU_execute(op, v1, v2)),
                       !.pc = q.pc + 1]

\* ------------------------------------------------------------ ALU inputs
Ops == {"ADD", "SUB", "MUL", "AND", "OR", "XOR", "BSL", "HLT"}
Byte == 0..ByteMask

\* --------------------------------------------------------- specifications
InitCPU ==
    /\ regs = InitState.regs
    /\ pc = InitState.pc
    /\ ports = InitState.ports
    /\ screen = InitState.screen
    /\ pipeline = InitState.pipeline
    /\ err = InitState.err
    /\ core_id = 0
    /\ ticks = 0
    /\ idle = 0
    /\ executed = None
    /\ seq = SeqInit
    /\ jumps = 0
    /\ resLast = None

Init ==
    /\ rom \in Programs
    /\ InitCPU
    /\ ram = Memory_init(RamSize)
    /\ aluIn = None
    /\ aluOut = None
    /\ memLast = None

\* the coming tick executes a JMP whose target is an address of the program
JumpsInRange ==
    /\ pipeline.E # None /\ pipeline.E[1] = "JMP"
    /\ resolve(WritebackStep(State), pipeline.E[4]) \in 0..(Len(rom) - 1)

\* one call of tick(); ticks, idle and executed observe the run, seq is the
\* reference interpreter, stepped once per instruction the tick executes,
\* jumps counts the in-range JMPs executed (0, 1, 2 = twice or more), and
\* resLast (the last resolve() called from outside since the last tick) is
\* forgotten
Tick ==
    LET t == tick(State)
    IN /\ regs' = t.regs
       /\ pc' = t.pc
       /\ ports' = t.ports
       /\ screen' = t.screen
       /\ pipeline' = t.pipeline
       /\ err' = t.err
       /\ ticks' = Min(ticks + 1, MaxTicks)
       /\ idle' = IF pc >= Len(rom) THEN Min(idle + 1, MaxTicks) ELSE 0
       /\ executed' = pipeline.E
       /\ seq' = IF pipeline.E # None THEN SeqStep(seq) ELSE seq
       /\ jumps' = IF JumpsInRange THEN Min(jumps + 1, 2) ELSE jumps
       /\ resLast' = None
       /\ UNCHANGED <<rom, core_id, ram, aluIn, aluOut, memLast>>

Next == Tick

Spec == Init /\ [][Next]_vars

\* ALU.execute on its own: the inputs are drawn by Init, the action calls it
AluInit ==
    /\ rom = <<>>
    /\ InitCPU
    /\ ram = Memory_init(RamSize)
    /\ aluIn \in Ops \X Byte \X Byte
    /\ aluOut = None
    /\ memLast = None

AluCall ==
    /\ aluOut = None
    /\ ~ALU_raises(aluIn[1], aluIn[2], aluIn[3])
    /\ aluOut' = <<ALU_execute(aluIn[1], aluIn[2], aluIn[3])>>
    /\ UNCHANGED <<rom, regs, pc, ports, screen, pipeline, core_id, err, ram,
                   ticks, idle, executed, seq, jumps, aluIn, memLast,
                   resLast>>

AluNext == AluCall

AluSpec == AluInit /\ [][AluNext]_vars

\* a Memory on its own: any size, then any sequence of reads and writes
MemAddrs == (-MaxAddr)..MaxAddr
MemVals == {-1, 0, 1, 255, 256, 300}

MemInit ==
    /\ rom = <<>>
    /\ InitCPU
    /\ \E size \in 1..MaxMemSize : ram = Memory_init(size)
    /\ aluIn = None
    /\ aluOut = None
    /\ memLast = None

MemRead ==
    \E addr \in MemAddrs :
        /\ memLast' = <<"read", addr, Memory_read(ram, addr)>>
        /\ UNCHANGED <<rom, regs, pc, ports, screen, pipeline, core_id, err,
                       ram, ticks, idle, executed, seq, jumps, aluIn, aluOut,
                       resLast>>

MemWrite ==
    \E addr \in MemAddrs, val \in MemVals :
        /\ ram' = Memory_write(ram, addr, val)
        /\ memLast' = <<"write", addr, val>>
        /\ UNCHANGED <<rom, regs, pc, ports, screen, pipeline, core_id, err,
                       ticks, idle, executed, seq, jumps, aluIn, aluOut,
                       resLast>>

MemNext == MemRead \/ MemWrite

MemSpec == MemInit /\ [][MemNext]_vars

\* resolve() called between ticks: any run of a short program, and between
\* any two ticks any number of calls of resolve on any operand
ResPool == {ADD_R0, ADD_R1, OUT_REG, OUT_ID, XOR_R3, JMP_0}
ResPrograms == UNION {[1..n -> ResPool] : n \in 0..MaxLen}
ResOperands ==
    {Reg(k) : k \in 0..(NumRegs - 1)} \cup {Lit(-1), Lit(0), Lit(300), Absent}

ResInit ==
    /\ rom \in ResPrograms
    /\ InitCPU
    /\ ram = Memory_init(RamSize)
    /\ aluIn = None
    /\ aluOut = None
    /\ memLast = None

\* one call of resolve(op) from outside tick(); resLast is <<op, result>>
Resolve ==
    \E op \in ResOperands :
        /\ resLast' = <<op, resolve(State, op)>>
        /\ UNCHANGED <<rom, regs, pc, ports, screen, pipeline, core_id, err,
                       ram, ticks, idle, executed, seq, jumps, aluIn, aluOut,
                       memLast>>

ResNext == Tick \/ Resolve

ResSpec == ResInit /\ [][ResNext]_vars

\* a CPU whose tick() is called again and again without end
LivePool == {XOR_R5, OR_R3, BSL_R4, JMP_0, None}
LivePrograms == UNION {[1..n -> LivePool] : n \in 0..MaxLiveLen}

LiveInit ==
    /\ rom \in LivePrograms
    /\ InitCPU
    /\ ram = Memory_init(RamSize)
    /\ aluIn = None
    /\ aluOut = None
    /\ memLast = None

LiveSpec == LiveInit /\ [][Next]_vars /\ WF_vars(Tick)

\* ------------------------------------------------------------------ claims
\* what an operand denotes once the pending payload has been committed:
\* the register's content, or the literal
Denotes(rf, op) == IF op[1] = "R" THEN rf[op[2]] ELSE op[2]

\* the register file as the execute step of the coming tick will see it
RegsAtExecute == WritebackStep(State).regs

Executing(tag) == pipeline.E # None /\ pipeline.E[1] = tag

ForwardProg == <<ADD_R0, ADD_R1>>

\* C1 as stated: for the program [(ADD, R0, 5, 0), (ADD, R1, R0, 1)], after
\* exactly 4 ticks R1 = 6.
C1_R1AfterFourTicks == (rom = ForwardProg /\ ticks = 4) => regs[1] = 6

\* C1 amended: for that program R1 = 6 after exactly 6 ticks; after 4 ticks
\* R1 is still 0 and the first ADD's result (5, R0) is in the Writeback slot.
C1_R1AfterSixTicks ==
    rom = ForwardProg =>
        /\ ticks = 6 => regs[1] = 6
        /\ ticks = 4 => regs[1] = 0 /\ pipeline.W = <<5, Reg(0)>>

C1_Witness ==
    rom = ForwardProg /\ ticks = 6 /\ regs[0] = 5 /\ regs[1] = 6

\* C2 as stated: the tick that executes a JMP whose second operand resolves
\* to t leaves Fetch empty, Decode empty and PC = t, wherever t points.
C2_FlushLeavesFetchEmpty ==
    [][Executing("JMP") =>
        LET t == Denotes(RegsAtExecute, pipeline.E[4])
        IN pipeline'.F = None /\ pipeline'.D = None /\ pc' = t]_vars

\* C2 amended: the tick that executes a JMP to t leaves Decode empty; when t
\* indexes a non-empty program entry (-len <= t < len, a negative t counting
\* from the end) the same tick's fetch loads that entry into Fetch and leaves
\* PC = t + 1; otherwise Fetch is empty and PC = t.
C2_FlushThenRefetch ==
    [][Executing("JMP") =>
        LET t == Denotes(RegsAtExecute, pipeline.E[4])
            n == Len(rom)
            hit == -n <= t /\ t < n /\ rom[(t % n) + 1] # None
        IN /\ pipeline'.D = None
           /\ IF hit THEN pipeline'.F = rom[(t % n) + 1] /\ pc' = t + 1
                     ELSE pipeline'.F = None /\ pc' = t]_vars

\* the JMP found Fetch and Decode full and the fetch refilled Fetch
C2_Witness ==
    /\ rom = <<JMP_0, ADD_R0, ADD_R1>>
    /\ executed = JMP_0
    /\ pipeline.F = JMP_0 /\ pipeline.D = None /\ pipeline.E = None
    /\ pc = 1

NoBranch(r) ==
    \A i \in 1..Len(r) : r[i] = None \/ r[i][1] \notin {"JMP", "BEQ"}

\* the idle/halt property with the register file settled after n idle ticks
HaltsAfter(n) ==
    (NoBranch(rom) /\ pc >= Len(rom)) =>
        /\ pc' = pc
        /\ err' = "none" => pipeline'.F = None
        /\ idle >= n => regs' = regs

DrawProg == <<OUT_X, OUT_Y, OUT_SET>>

\* C4: a tick executing OUT to port 13 leaves every framebuffer cell off; a
\* tick executing OUT to port 12 turns on exactly the cell at row
\* (port 11 mod 32), column (port 10 mod 32) and leaves the others as they
\* were; so (OUT,10,5,0), (OUT,11,7,0), (OUT,12,1,0) turn framebuffer[7][5] on.
C4_PortMappedDisplay ==
    [][/\ Executing("OUT") =>
            LET port == Denotes(RegsAtExecute, pipeline.E[2])
            IN /\ port = 13 => screen' = {}
               /\ port = 12 =>
                    screen' = screen \cup
                        {<<ports[11] % ScreenDim, ports[10] % ScreenDim>>}
       /\ (rom = DrawProg /\ executed' = OUT_SET) => screen' = {<<7, 5>>}]_vars

C4_Witness ==
    /\ rom = DrawProg /\ executed = OUT_SET
    /\ ports[10] = 5 /\ ports[11] = 7 /\ ports[12] = 1
    /\ screen = {<<7, 5>>}

\* C5: with any opcode tag and operands that are R0..R7 or integer literals
\* of any size or sign, no call of tick() raises.
C5_TickNeverRaises == err = "none"

\* ADD..BSL as the table of the ALU states them, on bytes
BitOf(v, i) == (v \div (2 ^ i)) % 2

Bitwise(f(_, _), v1, v2) ==
    LET b(i) == IF f(BitOf(v1, i) = 1, BitOf(v2, i) = 1) THEN 2 ^ i ELSE 0
    IN b(0) + b(1) + b(2) + b(3) + b(4) + b(5) + b(6) + b(7)

AluTable(op, v1, v2) ==
    CASE op = "ADD" -> (v1 + v2) % 256
      [] op = "SUB" -> (v1 - v2) % 256
      [] op = "MUL" -> (v1 * v2) % 256
      [] op = "AND" -> Bitwise(LAMBDA x, y : x /\ y, v1, v2)
      [] op = "OR" -> Bitwise(LAMBDA x, y : x \/ y, v1, v2)
      [] op = "XOR" -> Bitwise(LAMBDA x, y : x # y, v1, v2)
      [] op = "BSL" -> IF v2 >= 8 THEN 0 ELSE (v1 * (2 ^ v2)) % 256
      [] OTHER -> 0

\* C6: for ADD, SUB, MUL, AND, OR, XOR, BSL on bytes ALU.execute returns the
\* table's byte, with execute(SUB,0,1) = 255 and execute(MUL,200,200) = 64;
\* any other tag gives 0.
C6_ALUTable ==
    aluOut # None =>
        /\ aluOut[1] \in 0..255
        /\ aluOut[1] = AluTable(aluIn[1], aluIn[2], aluIn[3])
        /\ aluIn = <<"SUB", 0, 1>> => aluOut[1] = 255
        /\ aluIn = <<"MUL", 200, 200>> => aluOut[1] = 64
        /\ aluIn[1] = "HLT" => aluOut[1] = 0

C6_Witness == aluIn = <<"MUL", 200, 200>> /\ aluOut = <<64>>

\* C7: every register holds a value in 0..255 in every reachable state.
C7_RegistersAreBytes == \A k \in 0..7 : regs[k] \in 0..255

\* C8: every port entry holds a value in 0..255 in every reachable state.
C8_PortsAreBytes == \A p \in 0..255 : ports[p] \in 0..255

\* C9: the execute step of a tick executing (BEQ, dest, op1, op2) sets PC to
\* op2's value and empties Fetch and Decode when dest's value equals op1's,
\* and otherwise changes neither PC nor any slot; either way it produces no
\* Writeback payload and changes no register, port or framebuffer cell.
C9_BranchIfEqual ==
    [][Executing("BEQ") =>
        LET before == WritebackStep(State)
            after == ExecuteStep(before)
            rf == before.regs
            taken == Denotes(rf, pipeline.E[2]) = Denotes(rf, pipeline.E[3])
        IN /\ IF taken
              THEN /\ after.pc = Denotes(rf, pipeline.E[4])
                   /\ after.pipeline.F = None /\ after.pipeline.D = None
                   /\ after.pipeline.E = pipeline.E
              ELSE after.pc = pc /\ after.pipeline = before.pipeline
           /\ after.pipeline.W = None /\ pipeline'.W = None
           /\ after.regs = rf /\ regs' = rf
           /\ after.ports = ports /\ ports' = ports
           /\ after.screen = screen /\ screen' = screen]_vars

\* a BEQ on R0 = 5 was taken to 0 and the fetch restarted there
C9_Witness ==
    /\ executed = BEQ_R0 /\ regs[0] = 5
    /\ pipeline.D = None /\ pipeline.E = None /\ pipeline.F = rom[1]
    /\ pc = 1 /\ Len(rom) = 3

\* C10: a tick executing an OUT whose destination resolves to port 0 leaves
\* the Writeback payload (core identifier, dest); the following tick sets
\* Rk to the core identifier 0 when dest is Rk and changes no register when
\* dest is a literal.
C10_CoreIdReadback ==
    [][/\ (Executing("OUT") /\ Denotes(RegsAtExecute, pipeline.E[2]) = 0) =>
            pipeline'.W = <<0, pipeline.E[2]>>
       /\ (executed # None /\ executed[1] = "OUT" /\ pipeline.W # None) =>
            /\ pipeline.W = <<0, executed[2]>>
            /\ IF executed[2][1] = "R"
               THEN regs' = [regs EXCEPT ![executed[2][2]] = 0]
               ELSE regs' = regs]_vars

C10_Witness ==
    /\ executed = OUT_REG /\ pipeline.W = <<0, Reg(1)>> /\ ports[0] = 5

\* the PC and slots the fetch step of the coming tick starts from
AtFetch == ShiftStep(ExecuteStep(WritebackStep(State)))

\* C11: the fetch step loads program[PC] into Fetch and adds 1 to PC exactly
\* when 0 <= PC < program length and program[PC] is non-empty; for any other
\* PC (beyond the end, negative, or at an empty entry) Fetch becomes empty and
\* the fetch step leaves PC unchanged.
C11_FetchRule ==
    [][AtFetch.err = "none" =>
        LET p == AtFetch.pc
        IN IF 0 <= p /\ p < Len(rom) /\ rom[p + 1] # None
           THEN pipeline'.F = rom[p + 1] /\ pc' = p + 1
           ELSE pipeline'.F = None /\ pc' = p /\ err' = "none"]_vars

\* C12: for a Memory of size N, after any sequence of writes, read(addr) =
\* read(addr + N) for every address, negative ones included.
C12_ReadPeriodic ==
    /\ \A addr \in MemAddrs :
          Memory_read(ram, addr) = Memory_read(ram, addr + Len(ram))
    /\ (memLast # None /\ memLast[1] = "read") =>
          /\ memLast[3] = Memory_read(ram, memLast[2] + Len(ram))
          /\ memLast[3] = Memory_read(ram, memLast[2] - Len(ram))

\* a read at -1 returned the last cell, which a write had set
C12_Witness ==
    /\ Len(ram) = 3 /\ ram = <<0, 1, 44>>
    /\ memLast = <<"read", -1, 44>>

\* C13: after write(addr, val), read(addr) returns val mod 256, every cell
\* other than index addr mod N is unchanged, and every cell is in 0..255.
C13_WriteRoundTrip ==
    [][(memLast' # None /\ memLast'[1] = "write") =>
        LET addr == memLast'[2]
            val == memLast'[3]
            n == Len(ram)
        IN /\ Len(ram') = n
           /\ Memory_read(ram', addr) = val % 256
           /\ \A i \in 0..(n - 1) : i # addr % n => ram'[i + 1] = ram[i + 1]
           /\ \A i \in 1..n : ram'[i] \in 0..255]_vars

\* write(-1, 300) stored 44 in the last of three cells
C13_Witness ==
    /\ memLast = <<"write", -1, 300>>
    /\ ram = <<0, 1, 44>>

InRangeOperand(o) ==
    \/ o[1] = "R" /\ o[2] \in 0..7
    \/ o[1] = "L" /\ o[2] \in 0..255

InRange(r) ==
    \A i \in 1..Len(r) :
        /\ r[i] # None
        /\ r[i][1] \in {"ADD", "SUB", "MUL", "AND", "OR", "XOR", "BSL",
                        "OUT", "JMP", "BEQ"}
        /\ \A j \in 2..4 : InRangeOperand(r[i][j])

\* the instructions in flight, oldest first
InFlight ==
    SelectSeq(<<pipeline.E, pipeline.D, pipeline.F>>, LAMBDA x : x # None)

\* C14: for programs over the ten opcodes with operands in range, the
\* instructions reaching the execute step, and the registers, ports and
\* framebuffer each of them sees and leaves, are those of the one-at-a-time
\* interpreter: between ticks the register file with the pending payload
\* committed, the ports and the framebuffer equal the interpreter's, and the
\* instructions in flight are the interpreter's next ones in program order.
C14_SequentialEquivalence ==
    InRange(rom) =>
        /\ err = "none"
        /\ WritebackStep(State).regs = seq.regs
        /\ ports = seq.ports
        /\ screen = seq.screen
        /\ \A i \in 1..Len(InFlight) :
              /\ 0 <= seq.pc /\ seq.pc + i <= Len(rom)
              /\ InFlight[i] = rom[seq.pc + i]
        /\ pc = seq.pc + Len(InFlight)

\* a dependent ADD pair and a jump back to 0 have executed
C14_Witness ==
    /\ rom = <<ADD_R0, ADD_R1, JMP_0>>
    /\ executed = JMP_0
    /\ seq.pc = 0 /\ seq.regs[0] = 5 /\ seq.regs[1] = 6
    /\ pipeline.W = None /\ regs = seq.regs /\ pc = 1

\* the coming tick executes a JMP, or a BEQ whose comparison succeeds
JumpTaken ==
    \/ Executing("JMP")
    \/ /\ Executing("BEQ")
       /\ Denotes(RegsAtExecute, pipeline.E[2]) =
              Denotes(RegsAtExecute, pipeline.E[3])

\* C15: when a JMP or a taken BEQ executes, the instructions that were in
\* Fetch and Decode never reach the execute step: after that tick Execute and
\* Decode are empty and Fetch holds nothing but an entry fetched at the jump
\* target, so the next two ticks execute nothing and change no register, port
\* or framebuffer cell.
C15_FlushSquashes ==
    [][JumpTaken =>
        LET t == Denotes(RegsAtExecute, pipeline.E[4])
            after1 == tick(State)
            after2 == tick(after1)
            after3 == tick(after2)
            quiet(a, b) ==
                a.regs = b.regs /\ a.ports = b.ports /\ a.screen = b.screen
        IN /\ pipeline' = after1.pipeline
           /\ pipeline'.E = None /\ pipeline'.D = None
           /\ pipeline'.F # None =>
                /\ -Len(rom) <= t /\ t < Len(rom)
                /\ pipeline'.F = rom[(t % Len(rom)) + 1]
           /\ after2.pipeline.E = None
           /\ after2.pipeline.W = None /\ after3.pipeline.W = None
           /\ quiet(after1, after2) /\ quiet(after2, after3)]_vars

\* the two OUTs behind a looping JMP were fetched again and again and never
\* executed
C15_Witness ==
    /\ rom = <<JMP_0, OUT_SET, OUT_CLR>>
    /\ ticks = MaxTicks /\ executed = JMP_0
    /\ pipeline.E = None /\ pipeline.D = None /\ pipeline.F = JMP_0
    /\ ports[12] = 0 /\ screen = {}

\* C16: an OUT whose destination resolves to p stores v1 at port p mod 256,
\* and the hardwired effect fires exactly when p mod 256 is 0 (readback),
\* 12 (pixel set) or 13 (clear); an OUT to 268 stores into port 12 and sets
\* the pixel.
C16_PortIndexWraps ==
    [][Executing("OUT") =>
        LET p == Denotes(RegsAtExecute, pipeline.E[2])
            v1 == Denotes(RegsAtExecute, pipeline.E[3])
            k == p % 256
        IN /\ ports' = [ports EXCEPT ![k] = v1]
           /\ pipeline'.W = IF k = 0 THEN <<0, pipeline.E[2]>> ELSE None
           /\ screen' =
                IF k = 13 THEN {}
                ELSE IF k = 12
                THEN screen \cup {<<ports[11] % 32, ports[10] % 32>>}
                ELSE screen]_vars

IsAluOp(ins) == ins # None /\ ins[1] \notin {"OUT", "JMP", "BEQ"}

\* one tick of an instruction's way through the slots
StageTiming ==
    /\ ~JumpTaken => pipeline'.D = pipeline.F /\ pipeline'.E = pipeline.D
    /\ JumpTaken => pipeline'.D = None /\ pipeline'.E = None
    /\ IsAluOp(pipeline.E) =>
          /\ pipeline'.W # None
          /\ pipeline'.W[2] = pipeline.E[2]
          /\ executed' = pipeline.E
    /\ (pipeline.W # None /\ pipeline.W[2][1] = "R") =>
          regs'[pipeline.W[2][2]] = pipeline.W[1]
    /\ \A k \in 0..7 :
          regs'[k] # regs[k] => pipeline.W # None /\ pipeline.W[2] = Reg(k)

\* C17: an instruction fetched by tick t and not flushed is in Decode after
\* t+1, in Execute after t+2, is executed during t+3 (its payload is in
\* Writeback after t+3) and is committed during t+4 and not earlier; it
\* leaves Execute in the tick that executes it, so it is executed once.
C17_StageTiming == [][StageTiming]_vars

\* C18: across a tick the register file changes in at most the one register
\* named by the Writeback payload pending at the start of the tick; with an
\* empty slot or a literal destination no register changes.
C18_RegistersOnlyByWriteback ==
    [][/\ \A k \in 0..7 :
            regs'[k] # regs[k] => pipeline.W # None /\ pipeline.W[2] = Reg(k)
       /\ (pipeline.W = None \/ pipeline.W[2][1] # "R") => regs' = regs]_vars

\* the literal-destined payload of an OUT to port 0 was dropped and R0 kept
\* the value an earlier writeback gave it
C18_Witness ==
    /\ rom = <<ADD_R0, OUT_ID>> /\ ticks = 6
    /\ regs[0] = 5 /\ ports[0] = 3
    /\ pipeline.W = None /\ executed = None

\* C19: a tick whose Execute slot holds no OUT leaves every port and every
\* framebuffer cell unchanged; a tick executing OUT changes at most the port
\* entry it addresses; no tick changes RAM.
C19_PortsOnlyByOut ==
    [][/\ ~Executing("OUT") => ports' = ports /\ screen' = screen
       /\ Executing("OUT") =>
            \A q \in 0..255 :
                ports'[q] # ports[q] =>
                    q = Denotes(RegsAtExecute, pipeline.E[2]) % 256
       /\ ram' = ram]_vars

\* an ADD executed after an OUT and left the port bank as the OUT made it
C19_Witness ==
    /\ rom = <<OUT_X, ADD_R0>> /\ executed = ADD_R0
    /\ ports = [InitState.ports EXCEPT ![10] = 5]
    /\ screen = {} /\ ram = Memory_init(RamSize)

\* the register file once the payload pending now has been committed
Committed ==
    IF pipeline.W # None /\ pipeline.W[2][1] = "R"
    THEN [regs EXCEPT ![pipeline.W[2][2]] = pipeline.W[1]]
    ELSE regs

\* C20: when the execute step resolves op1, op2 and dest the Writeback slot
\* is empty, so a register operand reads the register file as this tick's
\* writeback left it and resolve never returns a pending payload's value.
C20_NoSelfForward ==
    [][pipeline.E # None =>
        LET s1 == WritebackStep(State)
        IN /\ s1.pipeline.W = None
           /\ s1.regs = Committed
           /\ \A j \in 2..4 :
                resolve(s1, pipeline.E[j]) = Denotes(Committed, pipeline.E[j])
           /\ (IsAluOp(pipeline.E) /\ err' = "none") =>
                pipeline'.W =
                    <<ALU_execute(pipeline.E[1],
                                  Denotes(Committed, pipeline.E[3]),
                                  Denotes(Committed, pipeline.E[4])),
                      pipeline.E[2]>>]_vars

\* the second ADD read R0 = 5 in the tick whose writeback committed it
C20_Witness ==
    /\ rom = ForwardProg /\ ticks = 5 /\ executed = ADD_R1
    /\ regs[0] = 5 /\ pipeline.W = <<6, Reg(1)>>

\* C21: between ticks resolve(Rk) returns the pending Writeback payload's
\* value when that payload's destination is Rk and otherwise the content of
\* register k; resolve of an integer literal returns the literal; resolve of
\* an absent operand returns 0; resolve changes no state.
C21_Resolve ==
    [][resLast' # None =>
        LET op == resLast'[1]
            v == resLast'[2]
        IN /\ \A k \in 0..7 :
                op = Reg(k) =>
                    v = IF pipeline.W # None /\ pipeline.W[2] = Reg(k)
                        THEN pipeline.W[1]
                        ELSE regs[k]
           /\ op[1] = "L" => v = op[2]
           /\ op = Absent => v = 0
           /\ UNCHANGED <<rom, regs, pc, ports, screen, pipeline, core_id,
                          err, ram>>]_vars

\* resolve(R0) returned the 5 pending for R0 while R0 still held 0
C21_Witness ==
    /\ resLast = <<Reg(0), 5>>
    /\ pipeline.W = <<5, Reg(0)>> /\ regs[0] = 0

AllEmpty == pipeline = InitState.pipeline

CpuFields(s) == <<s.regs, s.pc, s.ports, s.screen, s.pipeline>>

\* every slot is empty and a tick leaves the whole CPU state as it is
Idle == AllEmpty /\ CpuFields(tick(State)) = CpuFields(State)

\* C22: for every program containing no JMP or BEQ, repeated ticking
\* eventually reaches a state in which Fetch, Decode, Execute and Writeback
\* are all empty, and from then on every tick leaves registers, PC, ports,
\* framebuffer and slots unchanged.
C22_DrainsToIdle == NoBranch(rom) => <>[]Idle

\* the program runs straight from address 0 to a JMP at address j whose
\* target is an address in 0..j: nothing but that JMP changes the control
\* flow, which leads from the target back to the JMP
LoopAt(r, j) ==
    /\ r[j + 1] # None /\ r[j + 1][1] = "JMP"
    /\ r[j + 1][4][1] = "L" /\ r[j + 1][4][2] \in 0..j
    /\ \A i \in 0..(j - 1) :
          r[i + 1] # None /\ r[i + 1][1] \notin {"JMP", "BEQ"}

Loops(r) == \E j \in 0..(Len(r) - 1) : LoopAt(r, j)

\* C23: for a program whose control flow reaches an unconditional JMP to an
\* in-range address from which that JMP is reached again (here: a loop with
\* no other branch, whose JMP is executed and then executed a second time),
\* the CPU never reaches the idle state, the JMP is executed infinitely
\* often and the Fetch slot is non-empty infinitely often.
C23_LoopsNeverHalt ==
    (Loops(rom) /\ <>(jumps >= 2)) =>
        /\ []~Idle
        /\ []<><<Tick /\ Executing("JMP")>>_vars
        /\ []<>(pipeline.F # None)

====
